---- MODULE Spec2Model ----
(***************************************************************************)
(* Model of the rule executor of src/src/zenrules_executor.py:             *)
(* __get_attr_val, eval_condition, apply_action, execute_rule and           *)
(* execute_policy.                                                         *)
(*                                                                         *)
(* Python objects: a value is a record [t, n, s].  Mutable mappings live   *)
(* in a heap (a sequence of dict objects, an address is an index), so that *)
(* aliasing and deepcopy are what they are in Python.  A Python string is  *)
(* held as the sequence of its dot-free segments, i.e. as s.split("."),    *)
(* which is one-to-one with the string; numbers are held in hundredths.    *)
(***************************************************************************)
EXTENDS Integers, Sequences, FiniteSets, TLC

\* ------------------------------------------------------------------ values
Null == [t |-> "null", n |-> 0, s |-> <<>>]
Absent == [t |-> "absent", n |-> 0, s |-> <<>>]
Num(c) == [t |-> "num", n |-> c, s |-> <<>>]
Bool(b) == [t |-> "bool", n |-> (IF b THEN 1 ELSE 0), s |-> <<>>]
Str(parts) == [t |-> "str", n |-> 0, s |-> parts]
Map(a) == [t |-> "map", n |-> a, s |-> <<>>]
Lst(k) == [t |-> "list", n |-> k, s |-> <<>>]

\* a whole number, a dot-free string
N(k) == Num(k * 100)
S(x) == Str(<<x>>)

\* The keys a mapping of the model may hold.
Keys ==
    {"price", "price_after_discount", "tier", "policy_flags", "out_of_policy_rule",
     "product_type", "booking_window_days", "competitor_price"}
KeySeq ==
    <<"price", "price_after_discount", "tier", "policy_flags", "out_of_policy_rule",
      "product_type", "booking_window_days", "competitor_price">>

\* The list literals a condition value may be.
Lists == << <<S("gold")>>, <<Null, S("gold")>>, <<N(200), S("silver")>> >>

EmptyDict == [k \in Keys |-> Absent]

IsNumber(v) == v.t \in {"num", "bool"}
NumVal(v) == IF v.t = "bool" THEN v.n * 100 ELSE v.n

\* bool(v) of a value
Truthy(v, h) ==
    CASE v.t = "null" -> FALSE
      [] v.t = "num" -> v.n # 0
      [] v.t = "bool" -> v.n = 1
      [] v.t = "str" -> v.s # <<"">>
      [] v.t = "list" -> Len(Lists[v.n]) > 0
      [] v.t = "map" -> \E k \in Keys : h[v.n][k] # Absent
      [] OTHER -> FALSE

\* The leaves of a value with the path to each: its deep content.
RECURSIVE Flatten(_, _, _)
Flatten(v, h, prefix) ==
    IF v.t = "map"
    THEN {<<prefix, Map(0)>>} \cup
         UNION {Flatten(h[v.n][k], h, Append(prefix, k)) : k \in {x \in Keys : h[v.n][x] # Absent}}
    ELSE {<<prefix, v>>}

\* a == b of two values
PyEq(a, b, h) ==
    CASE IsNumber(a) /\ IsNumber(b) -> NumVal(a) = NumVal(b)
      [] a.t = "map" /\ b.t = "map" -> Flatten(a, h, <<>>) = Flatten(b, h, <<>>)
      [] a.t = "list" /\ b.t = "list" ->
            /\ Len(Lists[a.n]) = Len(Lists[b.n])
            /\ \A i \in 1..Len(Lists[a.n]) :
                 LET x == Lists[a.n][i]
                     y == Lists[b.n][i]
                 IN IF IsNumber(x) /\ IsNumber(y) THEN NumVal(x) = NumVal(y) ELSE x = y
      [] OTHER -> a = b

\* ------------------------------------------------------- strings, floats
\* The strings a payload or a condition value may hold, in Python's order
\* ("" < "30" < "abc" < "flight" < "gold" < "hotel" < "our_price" < "price"
\* < "silver").
StrRank(x) ==
    CASE x = "" -> 0
      [] x = "30" -> 1
      [] x = "abc" -> 2
      [] x = "flight" -> 3
      [] x = "gold" -> 4
      [] x = "hotel" -> 5
      [] x = "our_price" -> 6
      [] x = "price" -> 7
      [] x = "silver" -> 8
      [] OTHER -> 9

\* a in b of two of these strings: "price" is a part of "our_price", no
\* other one is a proper part of another one
IsSubstr(a, b) == a = <<"">> \/ a = b \/ (a = <<"price">> /\ b = <<"our_price">>)

\* float(v): [ok, x], ok false when float() raises (TypeError, ValueError)
\* a conversion that takes numbers only: float() of a string always failing
Float_strict(v) ==
    IF IsNumber(v) THEN [ok |-> TRUE, x |-> NumVal(v)] ELSE [ok |-> FALSE, x |-> 0]

Float(v) ==
    CASE IsNumber(v) -> [ok |-> TRUE, x |-> NumVal(v)]
      [] v = S("30") -> [ok |-> TRUE, x |-> 3000]
      [] OTHER -> [ok |-> FALSE, x |-> 0]

B(b) == IF b THEN "true" ELSE "false"
Ret(v) == [raised |-> FALSE, v |-> v]
Raised == [raised |-> TRUE, v |-> Null]

\* d.get(key) of a record of the model: None when the key is absent
Get(x) == IF x = Absent THEN Null ELSE x

\* ---------------------------------------------------------- __get_attr_val
RECURSIVE Walk(_, _, _, _)
Walk(cur, parts, i, h) ==
    IF i > Len(parts) THEN cur
    ELSE IF cur.t = "map" /\ parts[i] \in Keys /\ h[cur.n][parts[i]] # Absent
         THEN Walk(h[cur.n][parts[i]], parts, i + 1, h)
         ELSE Null

\* the resolver without nested paths: every path is looked up as one key
_get_attr_val_flat(pv, attr, h) ==
    IF ~Truthy(attr, h) THEN Ret(Null)
    ELSE IF attr.t # "str" THEN Raised
    ELSE IF pv.t # "map" THEN Raised
    ELSE IF Len(attr.s) = 1 /\ attr.s[1] \in Keys THEN Ret(Get(h[pv.n][attr.s[1]]))
    ELSE Ret(Null)

\* [raised, v]: 'not attr' gives None; a truthy attr that is no string raises
\* at '"." not in attr' or as an unhashable key; a path without "." is
\* payload.get(attr), which raises when the payload is no mapping.
_get_attr_val(pv, attr, h) ==
    IF ~Truthy(attr, h) THEN Ret(Null)
    ELSE IF attr.t # "str" THEN Raised
    ELSE IF Len(attr.s) = 1
         THEN IF pv.t # "map" THEN Raised
              ELSE IF attr.s[1] \in Keys THEN Ret(Get(h[pv.n][attr.s[1]]))
              ELSE Ret(Null)
         ELSE Ret(Walk(pv, attr.s, 1, h))

\* --------------------------------------------------------- eval_condition
\* left in val: "true", "false", or "raise" (TypeError)
\* a membership test that answers False instead of failing
Member_total(left, val, h) ==
    CASE val.t = "list" -> B(\E i \in 1..Len(Lists[val.n]) : PyEq(Lists[val.n][i], left, h))
      [] val.t = "str" -> B(left.t = "str" /\ IsSubstr(left.s, val.s))
      [] val.t = "map" ->
            B(left.t = "str" /\ Len(left.s) = 1 /\ left.s[1] \in Keys
              /\ h[val.n][left.s[1]] # Absent)
      [] OTHER -> "false"

Member(left, val, h) ==
    CASE val.t = "list" -> B(\E i \in 1..Len(Lists[val.n]) : PyEq(Lists[val.n][i], left, h))
      [] val.t = "str" -> IF left.t = "str" THEN B(IsSubstr(left.s, val.s)) ELSE "raise"
      [] val.t = "map" ->
            IF left.t \in {"map", "list"} THEN "raise"
            ELSE B(left.t = "str" /\ Len(left.s) = 1 /\ left.s[1] \in Keys
                   /\ h[val.n][left.s[1]] # Absent)
      [] OTHER -> "raise"

Cmp(op, x, y) ==
    CASE op = S("<") -> x < y
      [] op = S("<=") -> x <= y
      [] op = S(">") -> x > y
      [] op = S(">=") -> x >= y
      [] OTHER -> FALSE

OrderOps == {S("<"), S("<="), S(">"), S(">=")}

\* a generic comparison that lets an operator it does not know pass
Generic_open(op, left, val, h) ==
    CASE op = S("==") -> B(PyEq(left, val, h))
      [] op = S("!=") -> B(~PyEq(left, val, h))
      [] op \in OrderOps ->
            IF left.t = "str" /\ val.t = "str"
            THEN B(Cmp(op, StrRank(left.s[1]), StrRank(val.s[1])))
            ELSE "false"
      [] OTHER -> "true"

\* lines 81-108: generic comparison; an ordering of unorderable operands is
\* a TypeError caught as False
Generic(op, left, val, h) ==
    CASE op = S("==") -> B(PyEq(left, val, h))
      [] op = S("!=") -> B(~PyEq(left, val, h))
      [] op \in OrderOps ->
            IF left.t = "str" /\ val.t = "str"
            THEN B(Cmp(op, StrRank(left.s[1]), StrRank(val.s[1])))
            ELSE "false"
      [] OTHER -> "false"

\* eval_condition reading a string value that names an attribute of the
\* payload as that attribute
eval_condition_resolving(cond, pv, h) ==
    IF ~cond.isMap THEN "raise"
    ELSE
    LET attr == Get(cond.attribute)
        op == Get(cond.operator)
        given == Get(cond.value)
        known == IF given.t = "str" THEN _get_attr_val(pv, given, h) ELSE Ret(Null)
        val == IF known.v # Null THEN known.v ELSE given
        r == _get_attr_val(pv, attr, h)
        left == r.v
        lnum == Float(left)
        vnum == Float(val)
    IN  IF r.raised THEN "raise"
        ELSE IF op = S("is_not_null") THEN B(left # Null /\ left # S(""))
        ELSE IF op = S("is_null") THEN B(left = Null \/ left = S(""))
        ELSE IF op = S("in")
             THEN (IF Member(left, val, h) = "raise" THEN "false" ELSE Member(left, val, h))
        ELSE IF op = S("not_in")
             THEN (IF Member(left, val, h) = "raise" THEN "false"
                   ELSE B(Member(left, val, h) = "false"))
        ELSE IF left = Null THEN "false"
        ELSE IF (IsNumber(left) \/ IsNumber(val)) /\ lnum.ok /\ vnum.ok
                /\ op \in OrderOps \cup {S("=="), S("!=")}
             THEN (IF op = S("==") THEN B(lnum.x = vnum.x)
                   ELSE IF op = S("!=") THEN B(lnum.x # vnum.x)
                   ELSE B(Cmp(op, lnum.x, vnum.x)))
        ELSE Generic(op, left, val, h)

\* "true", "false" or "raise"
eval_condition(cond, pv, h) ==
    IF ~cond.isMap THEN "raise"
    ELSE
    LET attr == Get(cond.attribute)
        op == Get(cond.operator)
        val == Get(cond.value)
        r == _get_attr_val(pv, attr, h)
        left == r.v
        lnum == Float(left)
        vnum == Float(val)
    IN  IF r.raised THEN "raise"
        ELSE IF op = S("is_not_null") THEN B(left # Null /\ left # S(""))
        ELSE IF op = S("is_null") THEN B(left = Null \/ left = S(""))
        ELSE IF op = S("in")
             THEN (IF Member(left, val, h) = "raise" THEN "false" ELSE Member(left, val, h))
        ELSE IF op = S("not_in")
             THEN (IF Member(left, val, h) = "raise" THEN "false"
                   ELSE B(Member(left, val, h) = "false"))
        ELSE IF left = Null THEN "false"
        ELSE IF (IsNumber(left) \/ IsNumber(val)) /\ lnum.ok /\ vnum.ok
                /\ op \in OrderOps \cup {S("=="), S("!=")}
             THEN (IF op = S("==") THEN B(lnum.x = vnum.x)
                   ELSE IF op = S("!=") THEN B(lnum.x # vnum.x)
                   ELSE B(Cmp(op, lnum.x, vnum.x)))
        ELSE Generic(op, left, val, h)

\* ------------------------------------------------------ rules and actions
\* A condition, an action, a rule: a mapping with the keys it holds (Absent
\* for a key it does not hold), or a value that is no mapping (raw).
Cond(attr, op, val) == [isMap |-> TRUE, raw |-> Absent, attribute |-> attr, operator |-> op, value |-> val]
NotACond(v) == [isMap |-> FALSE, raw |-> v, attribute |-> Absent, operator |-> Absent, value |-> Absent]
NoCond == NotACond(Null)

\* params: the key is absent, or holds None, or holds a mapping
Params(value, type, field) == [kind |-> "map", value |-> value, type |-> type, field |-> field]
NoParams == [kind |-> "absent", value |-> Absent, type |-> Absent, field |-> Absent]
NoneParams == [kind |-> "none", value |-> Absent, type |-> Absent, field |-> Absent]
EmptyParams == Params(Absent, Absent, Absent)

Action(name, params) == [isMap |-> TRUE, raw |-> Absent, action |-> name, params |-> params]
NotAnAction(v) == [isMap |-> FALSE, raw |-> v, action |-> Absent, params |-> NoParams]

\* the record apply_action returns
Applied(name, params) ==
    [action |-> name, params |-> params, error |-> Absent, warning |-> Absent,
     resulting_price |-> Absent, set_field |-> Absent, set_value |-> Absent]

\* ---------------------------------------------------------------- deepcopy
RECURSIVE deepcopy(_, _)
RECURSIVE CopyItems(_, _, _, _)
\* the entries KeySeq[i..] of the dict src copied into acc
CopyItems(src, i, acc, h) ==
    IF i > Len(KeySeq) THEN [d |-> acc, h |-> h]
    ELSE LET c == deepcopy(src[KeySeq[i]], h)
         IN  CopyItems(src, i + 1, [acc EXCEPT ![KeySeq[i]] = c.v], c.h)

\* copy.copy: a new mapping holding the same entries
shallowcopy(v, h) ==
    IF v.t # "map" THEN [v |-> v, h |-> h]
    ELSE [v |-> Map(Len(h) + 1), h |-> Append(h, h[v.n])]

\* [v, h]: the copy and the heap holding it
deepcopy(v, h) ==
    IF v.t # "map" THEN [v |-> v, h |-> h]
    ELSE LET c == CopyItems(h[v.n], 1, EmptyDict, h)
         IN  [v |-> Map(Len(c.h) + 1), h |-> Append(c.h, c.d)]

\* deepcopy of a rule: its action parameters are the values that may be mappings
RECURSIVE CopyActions(_, _, _, _)
CopyActions(acts, i, acc, h) ==
    IF i > Len(acts) THEN [acts |-> acc, h |-> h]
    ELSE LET c == deepcopy(acts[i].params.value, h)
         IN  CopyActions(acts, i + 1,
                         Append(acc, [acts[i] EXCEPT !.params.value = c.v]), c.h)

deepcopy_rule(r, h) ==
    LET c == CopyActions(r.actions, 1, <<>>, h)
    IN  [v |-> [r EXCEPT !.actions = c.acts], h |-> c.h]

\* ------------------------------------------------------------ apply_action
\* Round2 cutting the digits after the second decimal instead of rounding
Trunc2(num, den) == num \div den

\* round(x, 2) of x = num/den hundredths (den > 0): the nearest hundredth.
\* The prices and discounts of the model give no x halfway between two
\* hundredths, where round goes by the binary value of the float.
Round2(num, den) == (2 * num + den) \div (2 * den)

\* SetPath taking the whole field for one key: the write lands at its first part
SetPath_flat(a, parts, i, value, h) == [h EXCEPT ![a][parts[1]] = value]

\* lines 154-160: the write of value at the path parts below the mapping at a
RECURSIVE SetPath(_, _, _, _, _)
SetPath(a, parts, i, value, h) ==
    IF i >= Len(parts) THEN [h EXCEPT ![a][parts[i]] = value]
    ELSE LET p == parts[i]
             keep == h[a][p].t = "map"
             h1 == IF keep THEN h
                   ELSE Append([h EXCEPT ![a][p] = Map(Len(h) + 1)], EmptyDict)
         IN  SetPath(h1[a][p].n, parts, i + 1, value, h1)

\* apply_discount without the floor of the fixed discount at 0
apply_discount_nofloor(applied, params, pa, h) ==
    LET value == Get(params.value)
        dtype == IF params.type = Absent THEN S("percent") ELSE params.type
        price == Get(h[pa][ "price"])
        fp == Float(price)
        fv == Float(value)
        raw == IF dtype = S("percent")
               THEN Round2(fp.x * (10000 - fv.x), 10000)
               ELSE fp.x - fv.x
    IN  IF price = Null
        THEN [raised |-> FALSE, h |-> h, rec |-> [applied EXCEPT !.error = S("no_price_field")]]
        ELSE IF ~fp.ok \/ ~fv.ok
        THEN [raised |-> FALSE, h |-> h, rec |-> [applied EXCEPT !.error = S("discount_error")]]
        ELSE [raised |-> FALSE,
              h |-> [h EXCEPT ![pa]["price_after_discount"] = Num(raw)],
              rec |-> [applied EXCEPT !.resulting_price = Num(raw)]]

\* apply_discount taking a missing price for the price 0
apply_discount_free(applied, params, pa, h) ==
    LET value == Get(params.value)
        dtype == IF params.type = Absent THEN S("percent") ELSE params.type
        price == IF Get(h[pa][ "price"]) = Null THEN N(0) ELSE Get(h[pa][ "price"])
        fp == Float(price)
        fv == Float(value)
        raw == IF dtype = S("percent")
               THEN Round2(fp.x * (10000 - fv.x), 10000)
               ELSE IF fp.x - fv.x < 0 THEN 0 ELSE fp.x - fv.x
    IN  IF ~fp.ok \/ ~fv.ok
        THEN [raised |-> FALSE, h |-> h, rec |-> [applied EXCEPT !.error = S("discount_error")]]
        ELSE [raised |-> FALSE,
              h |-> [h EXCEPT ![pa]["price_after_discount"] = Num(raw)],
              rec |-> [applied EXCEPT !.resulting_price = Num(raw), !.error = S("no_price_field")]]

\* a discount that also writes the discounted price back as the price
apply_discount_inplace(applied, params, pa, h) ==
    LET value == Get(params.value)
        dtype == IF params.type = Absent THEN S("percent") ELSE params.type
        price == Get(h[pa]["price"])
        fp == Float(price)
        fv == Float(value)
        raw == IF dtype = S("percent")
               THEN Round2(fp.x * (10000 - fv.x), 10000)
               ELSE IF fp.x - fv.x < 0 THEN 0 ELSE fp.x - fv.x
    IN  IF price = Null
        THEN [raised |-> FALSE, h |-> h, rec |-> [applied EXCEPT !.error = S("no_price_field")]]
        ELSE IF ~fp.ok \/ ~fv.ok
        THEN [raised |-> FALSE, h |-> h, rec |-> [applied EXCEPT !.error = S("discount_error")]]
        ELSE [raised |-> FALSE,
              h |-> [h EXCEPT ![pa]["price_after_discount"] = Num(raw), ![pa]["price"] = Num(raw)],
              rec |-> [applied EXCEPT !.resulting_price = Num(raw)]]

\* a discount that goes on from the price an earlier discount wrote
apply_discount_compound(applied, params, pa, h) ==
    LET value == Get(params.value)
        dtype == IF params.type = Absent THEN S("percent") ELSE params.type
        price == IF Get(h[pa]["price_after_discount"]) # Null
                 THEN Get(h[pa]["price_after_discount"])
                 ELSE Get(h[pa]["price"])
        fp == Float(price)
        fv == Float(value)
        raw == IF dtype = S("percent")
               THEN Round2(fp.x * (10000 - fv.x), 10000)
               ELSE IF fp.x - fv.x < 0 THEN 0 ELSE fp.x - fv.x
    IN  IF price = Null
        THEN [raised |-> FALSE, h |-> h, rec |-> [applied EXCEPT !.error = S("no_price_field")]]
        ELSE IF ~fp.ok \/ ~fv.ok
        THEN [raised |-> FALSE, h |-> h, rec |-> [applied EXCEPT !.error = S("discount_error")]]
        ELSE [raised |-> FALSE,
              h |-> [h EXCEPT ![pa]["price_after_discount"] = Num(raw)],
              rec |-> [applied EXCEPT !.resulting_price = Num(raw)]]

\* lines 123-143
apply_discount(applied, params, pa, h) ==
    LET value == Get(params.value)
        dtype == IF params.type = Absent THEN S("percent") ELSE params.type
        price == Get(h[pa][ "price"])
        fp == Float(price)
        fv == Float(value)
        raw == IF dtype = S("percent")
               THEN Round2(fp.x * (10000 - fv.x), 10000)
               ELSE IF fp.x - fv.x < 0 THEN 0 ELSE fp.x - fv.x
    IN  IF price = Null
        THEN [raised |-> FALSE, h |-> h, rec |-> [applied EXCEPT !.error = S("no_price_field")]]
        ELSE IF ~fp.ok \/ ~fv.ok
        THEN [raised |-> FALSE, h |-> h, rec |-> [applied EXCEPT !.error = S("discount_error")]]
        ELSE [raised |-> FALSE,
              h |-> [h EXCEPT ![pa]["price_after_discount"] = Num(raw)],
              rec |-> [applied EXCEPT !.resulting_price = Num(raw)]]

\* lines 145-148
mark_out_of_policy(applied, pa, h) ==
    LET h1 == IF h[pa]["policy_flags"] = Absent
              THEN Append([h EXCEPT ![pa]["policy_flags"] = Map(Len(h) + 1)], EmptyDict)
              ELSE h
        flags == h1[pa]["policy_flags"]
    IN  IF flags.t # "map" THEN [raised |-> TRUE, h |-> h1, rec |-> applied]
        ELSE [raised |-> FALSE,
              h |-> [h1 EXCEPT ![flags.n]["out_of_policy_rule"] = Bool(TRUE)],
              rec |-> applied]

\* lines 150-165
set_field(applied, params, pa, h) ==
    LET field == Get(params.field)
        value == Get(params.value)
    IN  IF ~Truthy(field, h)
        THEN [raised |-> FALSE, h |-> h, rec |-> [applied EXCEPT !.error = S("no_field")]]
        ELSE IF field.t # "str" THEN [raised |-> TRUE, h |-> h, rec |-> applied]
        ELSE [raised |-> FALSE,
              h |-> SetPath(pa, field.s, 1, value, h),
              rec |-> [applied EXCEPT !.set_field = field, !.set_value = value]]

\* [raised, h, rec]: the action applied to the mapping at address pa
apply_action(action, pa, h) ==
    IF ~action.isMap THEN [raised |-> TRUE, h |-> h, rec |-> Applied(Null, EmptyParams)]
    ELSE
    LET name == Get(action.action)
        params == IF action.params.kind = "absent" THEN EmptyParams ELSE action.params
        applied == Applied(name, params)
    IN  IF name = S("apply_discount")
        THEN (IF params.kind # "map" THEN [raised |-> TRUE, h |-> h, rec |-> applied]
              ELSE apply_discount(applied, params, pa, h))
        ELSE IF name = S("mark_out_of_policy") THEN mark_out_of_policy(applied, pa, h)
        ELSE IF name = S("set_field")
        THEN (IF params.kind # "map" THEN [raised |-> TRUE, h |-> h, rec |-> applied]
              ELSE set_field(applied, params, pa, h))
        ELSE [raised |-> FALSE, h |-> h, rec |-> [applied EXCEPT !.warning = S("unknown_action")]]

\* ------------------------------------------------------------ execute_rule
Rule(hc, conds, ha, acts, other) ==
    [isMap |-> TRUE, raw |-> Absent, has_conditions |-> hc, conditions |-> conds,
     has_actions |-> ha, actions |-> acts, other |-> other]
NotARule(v) ==
    [isMap |-> FALSE, raw |-> v, has_conditions |-> FALSE, conditions |-> <<>>,
     has_actions |-> FALSE, actions |-> <<>>, other |-> FALSE]

\* 'not rule' of a rule that is a mapping: it holds no key
EmptyRule(r) == ~r.has_conditions /\ ~r.has_actions /\ ~r.other
\* rule.get("conditions", []), rule.get("actions", [])
Conditions(r) == IF r.has_conditions THEN r.conditions ELSE <<>>
Actions(r) == IF r.has_actions THEN r.actions ELSE <<>>

Explanation(kind, names) == [kind |-> kind, names |-> names]

\* lines 179-186
NewRes(rp) ==
    [matched |-> FALSE, reason |-> "", failed_condition |-> NoCond, actions_applied |-> <<>>,
     resulting_payload |-> rp, explanation |-> Explanation("", <<>>),
     in_policy |-> Absent, policy_status |-> Absent]

\* the frame of a call of execute_rule
IdleRule ==
    [pc |-> "idle", rule_copy |-> NotARule(Null), payload_copy |-> Null, i |-> 0,
     all_ok |-> TRUE, failed |-> NoCond, applied_list |-> <<>>, res |-> NewRes(Null)]

Running(f) == f.pc \notin {"idle", "done", "raised"}

\* rule_enter working on the caller's payload: line 177 without the deepcopy
rule_enter_shared(f, r, pv, h) ==
    LET rc == IF r.isMap THEN deepcopy_rule(r, h) ELSE [v |-> r, h |-> h]
        pc == IF pv.t = "map" THEN [v |-> pv, h |-> rc.h]
              ELSE [v |-> Map(Len(rc.h) + 1), h |-> Append(rc.h, EmptyDict)]
        rp == deepcopy(pc.v, pc.h)
        res == NewRes(rp.v)
        f1 == [f EXCEPT !.rule_copy = rc.v, !.payload_copy = pc.v, !.res = res]
    IN  IF ~r.isMap \/ EmptyRule(r)
        THEN [f |-> [f1 EXCEPT !.pc = "done", !.res.reason = "invalid_rule"], h |-> rp.h]
        ELSE [f |-> [f1 EXCEPT !.pc = IF Conditions(rc.v) = <<>> THEN "judge" ELSE "eval",
                               !.i = 1],
              h |-> rp.h]

\* rule_enter turning away only what is no mapping: line 188 without 'not rule_copy'
rule_enter_lenient(f, r, pv, h) ==
    LET rc == IF r.isMap THEN deepcopy_rule(r, h) ELSE [v |-> r, h |-> h]
        pc == IF pv.t = "map" THEN deepcopy(pv, rc.h)
              ELSE [v |-> Map(Len(rc.h) + 1), h |-> Append(rc.h, EmptyDict)]
        rp == deepcopy(pc.v, pc.h)
        res == NewRes(rp.v)
        f1 == [f EXCEPT !.rule_copy = rc.v, !.payload_copy = pc.v, !.res = res]
    IN  IF ~r.isMap
        THEN [f |-> [f1 EXCEPT !.pc = "done", !.res.reason = "invalid_rule"], h |-> rp.h]
        ELSE [f |-> [f1 EXCEPT !.pc = IF Conditions(rc.v) = <<>> THEN "judge" ELSE "eval",
                               !.i = 1],
              h |-> rp.h]

\* lines 176-193: [f, h]
rule_enter(f, r, pv, h) ==
    LET rc == IF r.isMap THEN deepcopy_rule(r, h) ELSE [v |-> r, h |-> h]
        pc == IF pv.t = "map" THEN deepcopy(pv, rc.h)
              ELSE [v |-> Map(Len(rc.h) + 1), h |-> Append(rc.h, EmptyDict)]
        rp == deepcopy(pc.v, pc.h)
        res == NewRes(rp.v)
        f1 == [f EXCEPT !.rule_copy = rc.v, !.payload_copy = pc.v, !.res = res]
    IN  IF ~r.isMap \/ EmptyRule(r)
        THEN [f |-> [f1 EXCEPT !.pc = "done", !.res.reason = "invalid_rule"], h |-> rp.h]
        ELSE [f |-> [f1 EXCEPT !.pc = IF Conditions(rc.v) = <<>> THEN "judge" ELSE "eval",
                               !.i = 1],
              h |-> rp.h]

\* rule_eval without the break: the loop goes on after a condition that fails
rule_eval_nobreak(f, h) ==
    LET conds == Conditions(f.rule_copy)
        cond == conds[f.i]
        ok == eval_condition(cond, f.payload_copy, h)
        f1 == [f EXCEPT !.i = f.i + 1, !.pc = IF f.i = Len(conds) THEN "judge" ELSE "eval"]
    IN  IF ok = "raise" THEN [f EXCEPT !.pc = "raised"]
        ELSE IF ok = "false" THEN [f1 EXCEPT !.all_ok = FALSE, !.failed = cond]
        ELSE f1

\* lines 198-203, one turn of the loop
rule_eval(f, h) ==
    LET conds == Conditions(f.rule_copy)
        cond == conds[f.i]
        ok == eval_condition(cond, f.payload_copy, h)
    IN  IF ok = "raise" THEN [f EXCEPT !.pc = "raised"]
        ELSE IF ok = "false"
        THEN [f EXCEPT !.all_ok = FALSE, !.failed = cond, !.pc = "judge"]
        ELSE [f EXCEPT !.i = f.i + 1, !.pc = IF f.i = Len(conds) THEN "judge" ELSE "eval"]

\* rule_judge reporting a match whatever the conditions gave
rule_judge_matched(f) ==
    IF ~f.all_ok
    THEN [f EXCEPT !.res.matched = TRUE, !.res.reason = "conditions_not_met",
                   !.res.failed_condition = f.failed,
                   !.res.explanation = Explanation("not_satisfied", <<>>),
                   !.res.resulting_payload = f.payload_copy,
                   !.pc = "finish"]
    ELSE [f EXCEPT !.res.matched = TRUE, !.res.reason = "actions_executed",
                   !.applied_list = <<>>,
                   !.pc = IF Actions(f.rule_copy) = <<>> THEN "finish" ELSE "apply"]

\* rule_judge going on to the actions also when a condition failed
rule_judge_apply(f) ==
    IF ~f.all_ok
    THEN [f EXCEPT !.res.matched = FALSE, !.res.reason = "conditions_not_met",
                   !.res.failed_condition = f.failed,
                   !.res.explanation = Explanation("not_satisfied", <<>>),
                   !.res.resulting_payload = f.payload_copy,
                   !.pc = IF Actions(f.rule_copy) = <<>> THEN "finish" ELSE "apply"]
    ELSE [f EXCEPT !.res.matched = TRUE, !.res.reason = "actions_executed",
                   !.applied_list = <<>>,
                   !.pc = IF Actions(f.rule_copy) = <<>> THEN "finish" ELSE "apply"]

\* lines 205-214
rule_judge(f) ==
    IF ~f.all_ok
    THEN [f EXCEPT !.res.matched = FALSE, !.res.reason = "conditions_not_met",
                   !.res.failed_condition = f.failed,
                   !.res.explanation = Explanation("not_satisfied", <<>>),
                   !.res.resulting_payload = f.payload_copy,
                   !.pc = "finish"]
    ELSE [f EXCEPT !.res.matched = TRUE, !.res.reason = "actions_executed",
                   !.applied_list = <<>>,
                   !.pc = IF Actions(f.rule_copy) = <<>> THEN "finish" ELSE "apply"]

\* rule_apply taking the actions from the last to the first
rule_apply_reversed(f, h) ==
    LET acts == Actions(f.rule_copy)
        j == Len(f.applied_list) + 1
        a == apply_action(acts[Len(acts) + 1 - j], f.payload_copy.n, h)
    IN  IF a.raised THEN [f |-> [f EXCEPT !.pc = "raised"], h |-> a.h]
        ELSE [f |-> [f EXCEPT !.applied_list = Append(f.applied_list, a.rec),
                              !.pc = IF j = Len(acts) THEN "finish" ELSE "apply"],
              h |-> a.h]

\* lines 215-217, one turn of the loop: [f, h]
rule_apply(f, h) ==
    LET acts == Actions(f.rule_copy)
        j == Len(f.applied_list) + 1
        a == apply_action(acts[j], f.payload_copy.n, h)
    IN  IF a.raised THEN [f |-> [f EXCEPT !.pc = "raised"], h |-> a.h]
        ELSE [f |-> [f EXCEPT !.applied_list = Append(f.applied_list, a.rec),
                              !.pc = IF j = Len(acts) THEN "finish" ELSE "apply"],
              h |-> a.h]

\* lines 229-235
Verdict(res) ==
    LET out_of_policy == \E k \in 1..Len(res.actions_applied) :
                            res.actions_applied[k].action = S("mark_out_of_policy")
    IN  [res EXCEPT !.in_policy = Bool(~out_of_policy),
                    !.policy_status = IF out_of_policy THEN S("out_of_policy") ELSE S("in_policy")]

\* rule_finish taking the verdict from the actions the rule lists
rule_finish_listed(f) ==
    LET names == [k \in 1..Len(f.applied_list) |-> f.applied_list[k].action]
        res1 == [f.res EXCEPT !.actions_applied = f.applied_list,
                              !.resulting_payload = f.payload_copy,
                              !.explanation = IF names = <<>> THEN Explanation("no_actions", <<>>)
                                              ELSE Explanation("applied", names)]
        listed == \E k \in 1..Len(Actions(f.rule_copy)) :
                     Actions(f.rule_copy)[k].action = S("mark_out_of_policy")
        verdict(res) == [res EXCEPT !.in_policy = Bool(~listed),
                                    !.policy_status = IF listed THEN S("out_of_policy")
                                                      ELSE S("in_policy")]
    IN  IF ~f.res.matched THEN [f EXCEPT !.res = verdict(f.res), !.pc = "done"]
        ELSE IF \E k \in 1..Len(names) : names[k].t # "str" THEN [f EXCEPT !.pc = "raised"]
        ELSE [f EXCEPT !.res = verdict(res1), !.pc = "done"]

\* lines 218-235; ', '.join(act_names) raises on a name that is no string
rule_finish(f) ==
    LET names == [k \in 1..Len(f.applied_list) |-> f.applied_list[k].action]
        res1 == [f.res EXCEPT !.actions_applied = f.applied_list,
                              !.resulting_payload = f.payload_copy,
                              !.explanation = IF names = <<>> THEN Explanation("no_actions", <<>>)
                                              ELSE Explanation("applied", names)]
    IN  IF ~f.res.matched THEN [f EXCEPT !.res = Verdict(f.res), !.pc = "done"]
        ELSE IF \E k \in 1..Len(names) : names[k].t # "str" THEN [f EXCEPT !.pc = "raised"]
        ELSE [f EXCEPT !.res = Verdict(res1), !.pc = "done"]

\* lines 195-235: the call from the frame f on to its end, [f, h]
RECURSIVE RunRule(_, _)
RunRule(f, h) ==
    CASE f.pc = "eval" -> RunRule(rule_eval(f, h), h)
      [] f.pc = "judge" -> RunRule(rule_judge(f), h)
      [] f.pc = "apply" -> LET c == rule_apply(f, h) IN RunRule(c.f, c.h)
      [] f.pc = "finish" -> RunRule(rule_finish(f), h)
      [] OTHER -> [f |-> f, h |-> h]

\* execute_rule(r, pv) run from the heap h without a stop: [f, h]
execute_rule(r, pv, h) ==
    LET e == rule_enter(IdleRule, r, pv, h)
    IN  RunRule(e.f, e.h)

\* ---------------------------------------------------------- execute_policy
IdlePolicy == [pc |-> "idle", i |-> 0, in_policy |-> Absent]

\* lines 245-249
policy_enter(f, r) ==
    IF ~r.isMap \/ Conditions(r) = <<>>
    THEN [f EXCEPT !.pc = "done", !.in_policy = Bool(TRUE)]
    ELSE [f EXCEPT !.pc = "eval", !.i = 1]

\* policy_eval with the verdict of a match: in policy when every condition holds
policy_eval_inverted(f, r, pv, h) ==
    LET ok == eval_condition(Conditions(r)[f.i], pv, h)
    IN  IF ok = "raise" THEN [f EXCEPT !.pc = "raised"]
        ELSE IF ok = "false" THEN [f EXCEPT !.pc = "done", !.in_policy = Bool(FALSE)]
        ELSE IF f.i = Len(Conditions(r)) THEN [f EXCEPT !.pc = "done", !.in_policy = Bool(TRUE)]
        ELSE [f EXCEPT !.i = f.i + 1]

\* lines 250-253, one turn of the loop
policy_eval(f, r, pv, h) ==
    LET ok == eval_condition(Conditions(r)[f.i], pv, h)
    IN  IF ok = "raise" THEN [f EXCEPT !.pc = "raised"]
        ELSE IF ok = "false" THEN [f EXCEPT !.pc = "done", !.in_policy = Bool(TRUE)]
        ELSE IF f.i = Len(Conditions(r)) THEN [f EXCEPT !.pc = "done", !.in_policy = Bool(FALSE)]
        ELSE [f EXCEPT !.i = f.i + 1]

\* ------------------------------------------------------------------ inputs
MaxConds == 2
MaxActs == 2

SeqsUpTo(X, n) == UNION {[1..k -> X] : k \in 0..n}

\* the conditions and the actions of the rules executed
RuleConds ==
    { Cond(S("tier"), S("=="), S("gold")),
      Cond(S("price"), S(">="), N(100)),
      NotACond(N(5)) }

RuleActs ==
    { Action(S("apply_discount"), Params(N(10), S("percent"), Absent)),
      Action(S("mark_out_of_policy"), NoParams),
      Action(S("set_field"), Params(N(100), Absent, S("price"))),
      Action(S("set_field"), Params(Map(3), Absent, S("policy_flags"))),
      Action(S("teleport_customer"), NoParams),
      Action(Absent, EmptyParams) }

Rules ==
    {NotARule(Null), Rule(FALSE, <<>>, FALSE, <<>>, TRUE)} \cup
    { Rule(hc, cs, ha, as, FALSE) :
        hc \in BOOLEAN, cs \in SeqsUpTo(RuleConds, MaxConds),
        ha \in BOOLEAN, as \in SeqsUpTo(RuleActs, MaxActs) }

\* the caller's payload: its value and the mappings it is made of
Payload(v, top, flags) == [v |-> v, top |-> top, flags |-> flags]
Payloads ==
    { Payload(Map(1), [EmptyDict EXCEPT !["price"] = N(200), !["tier"] = S("gold")], EmptyDict),
      Payload(Map(1), [EmptyDict EXCEPT !["price"] = N(200), !["tier"] = S("silver"),
                                        !["policy_flags"] = Map(2)],
              [EmptyDict EXCEPT !["tier"] = S("silver")]),
      Payload(Map(1), [EmptyDict EXCEPT !["tier"] = S("gold"), !["policy_flags"] = Null],
              EmptyDict),
      Payload(Null, EmptyDict, EmptyDict) }

\* the conditions and the payloads eval_condition is probed with
ProbeAttrs ==
    { S("tier"), S("price"), Str(<<"policy_flags", "tier">>), Str(<<"tier", "price">>),
      S(""), Absent, N(5), S("competitor_price"), S("policy_flags") }
ProbeOps ==
    { S("=="), S("!="), S("<"), S("<="), S(">"), S(">="), S("in"), S("not_in"),
      S("is_null"), S("is_not_null"), S("~="), Absent }
ProbeVals ==
    { Absent, N(200), N(30), S("30"), S("gold"), S("abc"), S(""), Bool(TRUE),
      Lst(1), Lst(2), Lst(3), Map(3), S("price"), S("our_price") }
ProbeConds ==
    {NotACond(N(5))} \cup
    {Cond(a, o, v) : a \in ProbeAttrs, o \in ProbeOps, v \in ProbeVals}
ProbePayloads ==
    Payloads \cup
    { Payload(Map(1), EmptyDict, EmptyDict),
      Payload(Map(1), [EmptyDict EXCEPT !["price"] = S("30"), !["policy_flags"] = Null],
              EmptyDict),
      Payload(Map(1), [EmptyDict EXCEPT !["price"] = N(30), !["tier"] = S("")], EmptyDict),
      Payload(Map(1), [EmptyDict EXCEPT !["price"] = S("abc"), !["tier"] = Null,
                                        !["policy_flags"] = Map(2)],
              [EmptyDict EXCEPT !["tier"] = S("gold")]),
      Payload(Map(1), [EmptyDict EXCEPT !["competitor_price"] = N(150), !["price"] = N(200)],
              EmptyDict),
      Payload(Map(1), [EmptyDict EXCEPT !["competitor_price"] = N(250), !["price"] = N(200),
                                        !["tier"] = S("our_price")],
              EmptyDict) }

\* ------------------------------------------------------------------- state
VARIABLES
    heap,      \* the mappings: 1, 2 the caller's payload, 3 the caller's rule's
    rule,      \* the caller's rule
    payload,   \* the caller's payload
    before,    \* the deep content of rule and payload when the session began
    er,        \* the frame of execute_rule
    ep,        \* the frame of execute_policy
    probe,     \* a direct call of eval_condition or apply_action, and its result
    er2,       \* the frame of a second call of execute_rule
    in2        \* the rule and the payload of the second call, and the first heap

vars == <<heap, rule, payload, before, er, ep, probe, er2, in2>>
inputs == <<rule, payload, before, in2>>

IdleProbe ==
    [pc |-> "idle", cond |-> NoCond, left |-> Ret(Null), result |-> "none",
     act |-> NotAnAction(Null), rec |-> Applied(Null, EmptyParams)]
\* no second call
NoCall == [rule |-> NotARule(Null), payload |-> Null, heap0 |-> <<>>]

\* the deep content of a rule: the rule and the content of its mappings
RuleContent(r, h) ==
    <<r, [k \in 1..Len(r.actions) |-> Flatten(r.actions[k].params.value, h, <<>>)]>>

\* A session: the caller holds a rule and a payload, calls execute_rule on
\* them and then execute_policy on the same two objects.
Init ==
    /\ \E p \in Payloads, r \in Rules :
         /\ (r.isMap => /\ (r.conditions # <<>> => r.has_conditions)
                        /\ (r.actions # <<>> => r.has_actions))
         /\ heap = <<p.top, p.flags, EmptyDict>>
         /\ payload = p.v
         /\ rule = r
    /\ before = [rule |-> RuleContent(rule, heap), payload |-> Flatten(payload, heap, <<>>)]
    /\ er = IdleRule
    /\ ep = IdlePolicy
    /\ probe = IdleProbe
    /\ er2 = IdleRule
    /\ in2 = NoCall

RuleEnter ==
    /\ er.pc = "idle"
    /\ probe.pc = "idle"
    /\ LET c == rule_enter(er, rule, payload, heap)
       IN  er' = c.f /\ heap' = c.h
    /\ UNCHANGED <<inputs, ep, probe, er2>>

RuleEval ==
    /\ er.pc = "eval"
    /\ er' = rule_eval(er, heap)
    /\ UNCHANGED <<heap, inputs, ep, probe, er2>>

RuleJudge ==
    /\ er.pc = "judge"
    /\ er' = rule_judge(er)
    /\ UNCHANGED <<heap, inputs, ep, probe, er2>>

RuleApply ==
    /\ er.pc = "apply"
    /\ LET c == rule_apply(er, heap)
       IN  er' = c.f /\ heap' = c.h
    /\ UNCHANGED <<inputs, ep, probe, er2>>

RuleFinish ==
    /\ er.pc = "finish"
    /\ er' = rule_finish(er)
    /\ UNCHANGED <<heap, inputs, ep, probe, er2>>

PolicyEnter ==
    /\ ep.pc = "idle"
    /\ er.pc \in {"done", "raised"}
    /\ ep' = policy_enter(ep, rule)
    /\ UNCHANGED <<heap, inputs, er, probe, er2>>

PolicyEval ==
    /\ ep.pc = "eval"
    /\ ep' = policy_eval(ep, rule, payload, heap)
    /\ UNCHANGED <<heap, inputs, er, probe, er2>>

Next ==
    \/ RuleEnter
    \/ RuleEval
    \/ RuleJudge
    \/ RuleApply
    \/ RuleFinish
    \/ PolicyEnter
    \/ PolicyEval

Spec == Init /\ [][Next]_vars

\* eval_condition called on its own, on a condition and a payload
InitCond ==
    /\ \E p \in ProbePayloads, c \in ProbeConds :
         /\ heap = <<p.top, p.flags, EmptyDict>>
         /\ payload = p.v
         /\ probe = [IdleProbe EXCEPT !.pc = "ready", !.cond = c]
    /\ rule = NotARule(Null)
    /\ before = [rule |-> RuleContent(rule, heap), payload |-> Flatten(payload, heap, <<>>)]
    /\ er = IdleRule
    /\ ep = IdlePolicy
    /\ er2 = IdleRule
    /\ in2 = NoCall

CondEval ==
    /\ probe.pc = "ready"
    /\ probe' = [probe EXCEPT !.pc = "done",
                              !.left = IF probe.cond.isMap
                                       THEN _get_attr_val(payload, Get(probe.cond.attribute), heap)
                                       ELSE Raised,
                              !.result = eval_condition(probe.cond, payload, heap)]
    /\ UNCHANGED <<heap, inputs, er, ep, er2>>

NextCond == CondEval

SpecCond == InitCond /\ [][NextCond]_vars

\* ------------------------------------------- the rule and payload of the test
TestConds ==
    << Cond(S("product_type"), S("=="), S("flight")),
       Cond(S("booking_window_days"), S(">="), N(30)) >>
TestValues == {N(10), N(33), N(500)}
TestTypes == {S("percent"), S("fixed"), Absent}
TestRule(v, ty) ==
    Rule(TRUE, TestConds, TRUE, <<Action(S("apply_discount"), Params(v, ty, Absent))>>, TRUE)
TestPrices == {N(200), Num(1998), Num(1999), Absent}
TestPayload(pt, pr, d) ==
    Payload(Map(1),
            [EmptyDict EXCEPT !["product_type"] = pt, !["price"] = pr,
                              !["booking_window_days"] = d],
            EmptyDict)
TestPayloads ==
    { TestPayload(pt, pr, d) : pt \in {S("flight"), S("hotel")}, pr \in TestPrices,
                               d \in {N(29), N(30)} }

\* The session of Spec on the rule of the test, with other discounts, and on
\* its payload, with other prices, product types and booking windows.
InitTest ==
    /\ \E p \in TestPayloads, v \in TestValues, ty \in TestTypes :
         /\ heap = <<p.top, p.flags, EmptyDict>>
         /\ payload = p.v
         /\ rule = TestRule(v, ty)
    /\ before = [rule |-> RuleContent(rule, heap), payload |-> Flatten(payload, heap, <<>>)]
    /\ er = IdleRule
    /\ ep = IdlePolicy
    /\ probe = IdleProbe
    /\ er2 = IdleRule
    /\ in2 = NoCall

SpecTest == InitTest /\ [][Next]_vars

\* ------------------------------------------------ rules of discounts only
\* The session of Spec on the rule of the test with one to MaxActs discount
\* actions, on the payload of the test with other prices (a number, a numeric
\* string, none) and with a price_after_discount it may hold already.
DiscValues == {N(10), N(33), S("abc")}
DiscTypes == {S("percent"), S("fixed")}
DiscActs == {Action(S("apply_discount"), Params(v, ty, Absent)) : v \in DiscValues, ty \in DiscTypes}
DiscRule(acts) == Rule(TRUE, TestConds, TRUE, acts, TRUE)
DiscPayloads ==
    { TestPayload(S("flight"), pr, N(30)) : pr \in TestPrices \cup {S("30")} }
    \cup { TestPayload(S("hotel"), N(200), N(30)),
           Payload(Map(1),
                   [TestPayload(S("flight"), N(200), N(30)).top
                      EXCEPT !["price_after_discount"] = N(50)],
                   EmptyDict) }

InitDisc ==
    /\ \E p \in DiscPayloads, acts \in SeqsUpTo(DiscActs, MaxActs) \ {<<>>} :
         /\ heap = <<p.top, p.flags, EmptyDict>>
         /\ payload = p.v
         /\ rule = DiscRule(acts)
    /\ before = [rule |-> RuleContent(rule, heap), payload |-> Flatten(payload, heap, <<>>)]
    /\ er = IdleRule
    /\ ep = IdlePolicy
    /\ probe = IdleProbe
    /\ er2 = IdleRule
    /\ in2 = NoCall

SpecDisc == InitDisc /\ [][Next]_vars

\* ------------------------------------------------ apply_action on its own
\* the actions and the payloads apply_action is probed with
ProbeFields ==
    { S("price"), Str(<<"tier", "price">>), Str(<<"policy_flags", "tier">>),
      Str(<<"policy_flags", "price", "tier">>), S(""), Null, Absent, N(5) }
ProbeSetValues == {N(100), S("gold"), Map(3), Null, Absent}
ProbeActs ==
    { Action(S("apply_discount"), Params(v, ty, Absent)) :
        v \in TestValues \cup {Absent, S("abc")}, ty \in TestTypes }
    \cup { Action(S("set_field"), Params(v, Absent, f)) :
             v \in ProbeSetValues, f \in ProbeFields }
    \cup { Action(n, ps) :
             n \in {S("apply_discount"), S("mark_out_of_policy"), S("set_field"),
                    S("teleport_customer"), S(""), Null, Absent, N(5)},
             ps \in {NoParams, NoneParams, EmptyParams} }
    \cup { NotAnAction(N(5)) }
ActPayloads ==
    {p \in ProbePayloads : p.v.t = "map"}
    \cup { Payload(Map(1), [EmptyDict EXCEPT !["price"] = Num(1998),
                                             !["policy_flags"] = S("gold")], EmptyDict),
           Payload(Map(1), [EmptyDict EXCEPT !["tier"] = Map(2), !["price"] = Num(1999)],
                   [EmptyDict EXCEPT !["price"] = N(30), !["out_of_policy_rule"] = Bool(FALSE)]) }

InitAct ==
    /\ \E p \in ActPayloads, a \in ProbeActs :
         /\ heap = <<p.top, p.flags, EmptyDict>>
         /\ payload = p.v
         /\ probe = [IdleProbe EXCEPT !.pc = "act", !.act = a]
    /\ rule = NotARule(Null)
    /\ before = [rule |-> RuleContent(rule, heap), payload |-> Flatten(payload, heap, <<>>)]
    /\ er = IdleRule
    /\ ep = IdlePolicy
    /\ er2 = IdleRule
    /\ in2 = NoCall

\* apply_action(act, payload): it writes into the payload it is given
ActApply ==
    /\ probe.pc = "act"
    /\ LET a == apply_action(probe.act, payload.n, heap)
       IN  /\ heap' = a.h
           /\ probe' = [probe EXCEPT !.pc = IF a.raised THEN "raised" ELSE "acted",
                                     !.rec = a.rec]
    /\ UNCHANGED <<inputs, er, ep, er2>>

NextAct == ActApply

SpecAct == InitAct /\ [][NextAct]_vars

\* ------------------------------------------- two calls of execute_rule
\* the rules and the payloads of two calls that run interleaved
TwoRules ==
    { Rule(TRUE, << Cond(S("tier"), S("=="), S("gold")), Cond(S("price"), S(">="), N(100)) >>,
           TRUE, << Action(S("set_field"), Params(N(100), Absent, S("price"))),
                    Action(S("apply_discount"), Params(N(10), S("percent"), Absent)) >>, FALSE),
      Rule(TRUE, <<>>,
           TRUE, << Action(S("apply_discount"), Params(N(10), S("percent"), Absent)),
                    Action(S("mark_out_of_policy"), NoParams) >>, FALSE),
      Rule(TRUE, << Cond(S("price"), S(">="), N(100)) >>,
           TRUE, << Action(S("mark_out_of_policy"), NoParams),
                    Action(S("set_field"), Params(Map(3), Absent, S("policy_flags"))) >>, FALSE),
      Rule(TRUE, << Cond(S("tier"), S("=="), S("gold")) >>,
           TRUE, << Action(S("set_field"), Params(Map(3), Absent, S("policy_flags"))),
                    Action(S("mark_out_of_policy"), NoParams) >>, FALSE),
      Rule(TRUE, << Cond(S("price"), S(">="), N(100)), NotACond(N(5)) >>,
           TRUE, << Action(S("mark_out_of_policy"), NoParams) >>, FALSE),
      Rule(FALSE, <<>>,
           TRUE, << Action(S("teleport_customer"), NoParams),
                    Action(Absent, EmptyParams) >>, FALSE),
      NotARule(Null) }

\* a value, a mapping, a rule of the second caller: its mappings are the
\* cells 4, 5 and 6 of the heap
Shift(v) == IF v.t = "map" THEN Map(v.n + 3) ELSE v
ShiftDict(d) == [k \in Keys |-> Shift(d[k])]
ShiftRule(r) ==
    [r EXCEPT !.actions = [k \in 1..Len(r.actions) |->
                              [r.actions[k] EXCEPT !.params.value = Shift(@)]]]

\* Two calls of execute_rule, by two callers: on the same rule and payload
\* objects, or on objects of their own.
InitTwo ==
    /\ \E p \in Payloads, r \in TwoRules, p2 \in Payloads, r2 \in TwoRules, same \in BOOLEAN :
         /\ same => (p2 = p /\ r2 = r)
         /\ heap = <<p.top, p.flags, EmptyDict,
                     ShiftDict(p2.top), ShiftDict(p2.flags), EmptyDict>>
         /\ payload = p.v
         /\ rule = r
         /\ in2 = [rule |-> IF same THEN r ELSE ShiftRule(r2),
                   payload |-> IF same THEN p.v ELSE Shift(p2.v),
                   heap0 |-> heap]
    /\ before = [rule |-> RuleContent(rule, heap), payload |-> Flatten(payload, heap, <<>>)]
    /\ er = IdleRule
    /\ ep = IdlePolicy
    /\ probe = IdleProbe
    /\ er2 = IdleRule

Rule2Enter ==
    /\ er2.pc = "idle"
    /\ in2 # NoCall
    /\ LET c == rule_enter(er2, in2.rule, in2.payload, heap)
       IN  er2' = c.f /\ heap' = c.h
    /\ UNCHANGED <<inputs, er, ep, probe>>

Rule2Eval ==
    /\ er2.pc = "eval"
    /\ er2' = rule_eval(er2, heap)
    /\ UNCHANGED <<heap, inputs, er, ep, probe>>

Rule2Judge ==
    /\ er2.pc = "judge"
    /\ er2' = rule_judge(er2)
    /\ UNCHANGED <<heap, inputs, er, ep, probe>>

Rule2Apply ==
    /\ er2.pc = "apply"
    /\ LET c == rule_apply(er2, heap)
       IN  er2' = c.f /\ heap' = c.h
    /\ UNCHANGED <<inputs, er, ep, probe>>

Rule2Finish ==
    /\ er2.pc = "finish"
    /\ er2' = rule_finish(er2)
    /\ UNCHANGED <<heap, inputs, er, ep, probe>>

NextTwo ==
    \/ RuleEnter
    \/ RuleEval
    \/ RuleJudge
    \/ RuleApply
    \/ RuleFinish
    \/ Rule2Enter
    \/ Rule2Eval
    \/ Rule2Judge
    \/ Rule2Apply
    \/ Rule2Finish

SpecTwo == InitTwo /\ [][NextTwo]_vars

\* ------------------------------------------- execute_rule, and once again
\* The caller runs execute_rule on a rule and a payload and, when it returns,
\* runs it again on the same rule and the resulting_payload of the result.
\* The rules discount and mark; their conditions read what the actions write.
AgainConds ==
    { Cond(S("price_after_discount"), S("is_null"), Absent),
      Cond(Str(<<"policy_flags", "out_of_policy_rule">>), S("is_null"), Absent),
      Cond(S("tier"), S("=="), S("gold")),
      NotACond(N(5)) }
AgainActs ==
    { Action(S("apply_discount"), Params(N(10), S("percent"), Absent)),
      Action(S("apply_discount"), Params(N(33), S("fixed"), Absent)),
      Action(S("mark_out_of_policy"), NoParams) }
AgainRules ==
    {NotARule(Null)} \cup
    { Rule(TRUE, cs, TRUE, as, FALSE) :
        cs \in SeqsUpTo(AgainConds, MaxConds), as \in SeqsUpTo(AgainActs, MaxActs) }
AgainPayloads ==
    Payloads \cup
    { Payload(Map(1), [EmptyDict EXCEPT !["price"] = Num(1998),
                                        !["price_after_discount"] = N(50),
                                        !["tier"] = S("gold")], EmptyDict) }

InitAgain ==
    /\ \E p \in AgainPayloads, r \in AgainRules :
         /\ heap = <<p.top, p.flags, EmptyDict>>
         /\ payload = p.v
         /\ rule = r
    /\ before = [rule |-> RuleContent(rule, heap), payload |-> Flatten(payload, heap, <<>>)]
    /\ er = IdleRule
    /\ ep = IdlePolicy
    /\ probe = IdleProbe
    /\ er2 = IdleRule
    /\ in2 = NoCall

\* execute_rule(rule, result["resulting_payload"])
AgainEnter ==
    /\ er.pc = "done"
    /\ er2.pc = "idle"
    /\ LET c == rule_enter(er2, rule, er.res.resulting_payload, heap)
       IN  er2' = c.f /\ heap' = c.h
    /\ UNCHANGED <<inputs, er, ep, probe>>

NextAgain ==
    \/ RuleEnter
    \/ RuleEval
    \/ RuleJudge
    \/ RuleApply
    \/ RuleFinish
    \/ AgainEnter
    \/ Rule2Eval
    \/ Rule2Judge
    \/ Rule2Apply
    \/ Rule2Finish

SpecAgain == InitAgain /\ [][NextAgain]_vars

\* ------------------------------------------------------------ the claims
\* What the conditions of the caller's rule give on the caller's payload
\* (execute_rule takes a payload that is no mapping for the empty mapping).
RuleConditions == Conditions(rule)
Ev(k) ==
    IF payload.t = "map" THEN eval_condition(RuleConditions[k], payload, heap)
    ELSE eval_condition(RuleConditions[k], Map(1), <<EmptyDict>>)
EvAll == [k \in 1..Len(RuleConditions) |-> Ev(k)]
\* the same for execute_policy, which evaluates on the payload as it is given
EvP(k) == eval_condition(RuleConditions[k], payload, heap)
EvPAll == [k \in 1..Len(RuleConditions) |-> EvP(k)]
\* of the results ev of the conditions: all true; k the first one false
AllTrueIn(ev) == \A k \in 1..Len(ev) : ev[k] = "true"
FirstFalseIn(ev, k) == ev[k] = "false" /\ \A j \in 1..(k - 1) : ev[j] = "true"
AllTrue == AllTrueIn(EvAll)
FirstFalse(k) == FirstFalseIn(EvAll, k)

NonEmptyRule == rule.isMap /\ ~EmptyRule(rule)
Returned == er.pc = "done"
EmptyContent == {<<(<<>>), Map(0)>>}
Result == er.res
ResultPayload == Flatten(er.res.resulting_payload, heap, <<>>)
Marks(recs) == \E k \in 1..Len(recs) : recs[k].action = S("mark_out_of_policy")

\* C1 as stated: for every rule that is a mapping, the result of execute_rule
\* has matched true exactly when every condition evaluates true, and otherwise
\* names conditions_not_met and the first condition that evaluates false.
C1_EveryMapping ==
    (rule.isMap /\ Returned) =>
        /\ Result.matched <=> AllTrue
        /\ ~Result.matched =>
              /\ Result.reason = "conditions_not_met"
              /\ \E k \in 1..Len(RuleConditions) :
                    FirstFalse(k) /\ Result.failed_condition = RuleConditions[k]

\* C1 amended: for every rule that is a non-empty mapping, the conditions are
\* evaluated in list order on the payload.  When one evaluates false after
\* conditions that all evaluate true, no later condition is evaluated, the
\* call does not raise, and it returns matched false, conditions_not_met and
\* that condition as failed_condition; a returned matched is true exactly
\* when every condition evaluates true.
C1_ShortCircuit ==
    NonEmptyRule =>
        LET ev == EvAll
        IN  /\ \A k \in 1..Len(RuleConditions) :
                  FirstFalseIn(ev, k) =>
                     /\ er.pc # "raised"
                     /\ er.i <= k
                     /\ Returned =>
                           /\ ~Result.matched
                           /\ Result.reason = "conditions_not_met"
                           /\ Result.failed_condition = RuleConditions[k]
                           /\ er.i = k
            /\ Returned => (Result.matched <=> AllTrueIn(ev))
            /\ (Returned /\ ~Result.matched) =>
                  \E k \in 1..Len(RuleConditions) : FirstFalseIn(ev, k)
            /\ (Returned /\ Result.matched) =>
                  Result.reason = "actions_executed" /\ Result.failed_condition = NoCond

\* a call that returned at a failing first condition, a malformed one after it
C1_Witness ==
    /\ Returned /\ NonEmptyRule
    /\ Len(RuleConditions) = 2
    /\ FirstFalse(1)
    /\ ~RuleConditions[2].isMap
    /\ Result.failed_condition = RuleConditions[1]

\* C2: in every state of a session, during and after execute_rule and
\* execute_policy, on every path, the caller's rule and payload have the deep
\* content they had before the calls; the actions show in resulting_payload.
C2_InputsUnchanged ==
    /\ Flatten(payload, heap, <<>>) = before.payload
    /\ RuleContent(rule, heap) = before.rule

\* both calls returned, and mark_out_of_policy wrote into the nested mapping
\* policy_flags the payload already held
C2_Witness ==
    /\ Returned /\ ep.pc = "done"
    /\ Result.matched /\ Marks(Result.actions_applied)
    /\ payload.t = "map" /\ heap[payload.n]["policy_flags"].t = "map"
    /\ ResultPayload # before.payload

\* C3: execute_rule and execute_policy never raise to the caller.
C3_NeverRaises == er.pc # "raised" /\ ep.pc # "raised"

\* C4: in every result that carries a verdict, in_policy is false exactly when
\* a record of actions_applied is mark_out_of_policy, and policy_status is
\* "out_of_policy" exactly when in_policy is false, "in_policy" otherwise.
C4_Verdict ==
    (Returned /\ Result.in_policy # Absent) =>
        /\ Result.in_policy = Bool(~Marks(Result.actions_applied))
        /\ Result.policy_status =
              IF Result.in_policy = Bool(FALSE) THEN S("out_of_policy") ELSE S("in_policy")

\* a rule that lists mark_out_of_policy and did not apply it: in policy
C4_Witness ==
    /\ Returned /\ ~Result.matched
    /\ Marks(Actions(rule))
    /\ Result.in_policy = Bool(TRUE)
    /\ Result.policy_status = S("in_policy")

\* C5: execute_policy returns in_policy false exactly when the rule is a
\* mapping with a non-empty condition list whose conditions all evaluate true;
\* it returns true for a rule that is no mapping or has no conditions, without
\* evaluating anything, and at the first condition that evaluates false.
C5_PolicyVerdict ==
    LET ev == EvPAll
    IN  /\ ep.pc = "done" =>
              /\ ep.in_policy \in {Bool(TRUE), Bool(FALSE)}
              /\ ep.in_policy = Bool(FALSE) <=>
                    (rule.isMap /\ RuleConditions # <<>> /\ AllTrueIn(ev))
        /\ (~rule.isMap \/ RuleConditions = <<>>) =>
              (ep.pc \in {"idle", "done"} /\ ep.i = 0)
        /\ rule.isMap =>
              \A k \in 1..Len(RuleConditions) :
                 FirstFalseIn(ev, k) =>
                    /\ ep.pc # "raised"
                    /\ ep.i <= k
                    /\ ep.pc = "done" => (ep.i = k /\ ep.in_policy = Bool(TRUE))

\* every one of two conditions held: out of policy
C5_Witness ==
    /\ ep.pc = "done" /\ ep.in_policy = Bool(FALSE)
    /\ Len(RuleConditions) = 2

\* C6: for a rule mapping with a non-empty condition list and a payload
\* mapping, in_policy of execute_policy is the negation of matched of
\* execute_rule.
C6_Complement ==
    (/\ rule.isMap /\ RuleConditions # <<>> /\ payload.t = "map"
     /\ Returned /\ ep.pc = "done")
    => ep.in_policy = Bool(~Result.matched)

\* both returned on a rule that matched: matched, and out of policy
C6_Witness ==
    /\ rule.isMap /\ RuleConditions # <<>> /\ payload.t = "map"
    /\ Returned /\ ep.pc = "done"
    /\ Result.matched /\ ep.in_policy = Bool(FALSE)

\* the path of the probed condition is absent from the payload: a key of the
\* path is not held, or the path goes through a value that is no mapping
RECURSIVE Held(_, _, _, _)
Held(cur, parts, i, h) ==
    IF i > Len(parts) THEN TRUE
    ELSE /\ cur.t = "map" /\ parts[i] \in Keys /\ h[cur.n][parts[i]] # Absent
         /\ Held(h[cur.n][parts[i]], parts, i + 1, h)
ProbedPathAbsent ==
    /\ probe.cond.isMap /\ probe.cond.attribute.t = "str"
    /\ probe.cond.attribute # S("")
    /\ payload.t = "map"
    /\ ~Held(payload, probe.cond.attribute.s, 1, heap)

\* C7: on an attribute path absent from the payload, eval_condition returns
\* false for every operator other than is_null and every condition value.
C7_MissingNeverMatches ==
    (probe.pc = "done" /\ ProbedPathAbsent /\ probe.cond.operator # S("is_null"))
    => probe.result = "false"

\* C8: when a rule matches and each of its actions has given its record (be it
\* an error or a warning record), the call returns, and actions_applied holds
\* one record per action of the rule, in order, record k naming action k.
C8_OneRecordPerAction ==
    (/\ er.pc \in {"done", "raised"} /\ Result.matched
     /\ Len(er.applied_list) = Len(Actions(rule)))
    => /\ Returned
       /\ Len(Result.actions_applied) = Len(Actions(rule))
       /\ \A k \in 1..Len(Actions(rule)) :
             Result.actions_applied[k].action = Get(Actions(rule)[k].action)

\* the price apply_discount at place k of the rule finds: the value of the
\* last set_field of price before it, the caller's price when there is none
SetsPrice(a) == a.isMap /\ a.action = S("set_field") /\ a.params.field = S("price")
Discounts(a) == a.isMap /\ a.action = S("apply_discount") /\ a.params.kind = "map"
PriceSeenAt(k) ==
    LET acts == Actions(rule)
        sets == {j \in 1..(k - 1) : SetsPrice(acts[j])}
        last == CHOOSE j \in sets : \A x \in sets : x <= j
    IN  IF sets # {} THEN Get(acts[last].params.value)
        ELSE IF payload.t = "map" THEN Get(heap[payload.n]["price"])
        ELSE Null

Ended == er.pc \in {"done", "raised"}
Reasons == {"invalid_rule", "conditions_not_met", "actions_executed"}

\* C11: a call of execute_rule that has ended has returned a result whose
\* reason is invalid_rule, conditions_not_met or actions_executed, never the
\* empty string; for a rule that is no mapping the result is invalid_rule with
\* matched false, and no condition was evaluated and no action applied.
C11_ThreeOutcomes ==
    /\ Ended => (Returned /\ Result.reason \in Reasons)
    /\ ~rule.isMap =>
          /\ er.pc \in {"idle", "done"}
          /\ er.i = 0 /\ er.applied_list = <<>>
          /\ Returned => (Result.reason = "invalid_rule" /\ ~Result.matched)

\* C12: every result execute_rule returns, also the invalid_rule one, holds
\* in_policy and policy_status besides matched, reason, failed_condition,
\* actions_applied, resulting_payload and explanation.
C12_CompleteResult ==
    Returned => (Result.in_policy # Absent /\ Result.policy_status # Absent)

\* C13: a call on a rule whose conditions are the empty list ends by
\* returning matched true and actions_executed, with one applied record for
\* each action of the rule, whatever the payload.
C13_EmptyConditionsMatch ==
    (rule.isMap /\ rule.has_conditions /\ rule.conditions = <<>> /\ Ended)
    => /\ Returned
       /\ Result.matched /\ Result.reason = "actions_executed"
       /\ Len(Result.actions_applied) = Len(Actions(rule))

\* the caller's price, and the payload the call returned
CallerPrice == heap[payload.n]["price"]
Returned_payload == heap[Result.resulting_payload.n]
Abs(x) == IF x < 0 THEN -x ELSE x

\* C14: when a rule matched whose action is apply_discount of v percent, on a
\* payload whose price is the number p, the resulting_price of the record and
\* price_after_discount of the resulting payload are one number, the
\* hundredth nearest to p*(1 - v/100); the rule of the test with v = 10 on
\* {product_type: flight, price: 200, booking_window_days: 30} returns
\* matched true and price_after_discount 180.
C14_PercentDiscount ==
    /\ (Returned /\ Result.matched) =>
          \A k \in 1..Len(Actions(rule)) :
             LET a == Actions(rule)[k]
                 rec == Result.actions_applied[k]
                 p == CallerPrice
                 v == a.params.value
             IN  (/\ Discounts(a) /\ a.params.type = S("percent")
                  /\ p.t = "num" /\ v.t = "num")
                 => /\ rec.error = Absent
                    /\ rec.resulting_price.t = "num"
                    /\ 2 * Abs(rec.resulting_price.n * 10000 - p.n * (10000 - v.n)) <= 10000
                    /\ Returned_payload["price_after_discount"] = rec.resulting_price
    /\ (/\ Ended /\ rule = TestRule(N(10), S("percent"))
        /\ heap[payload.n] = TestPayload(S("flight"), N(200), N(30)).top)
       => /\ Returned /\ Result.matched
          /\ Returned_payload["price_after_discount"] = N(180)

\* 33 percent off 19.98 is 13.3866: the call returned 13.39
C14_Witness ==
    /\ Returned /\ Result.matched
    /\ rule = TestRule(N(33), S("percent"))
    /\ CallerPrice = Num(1998)
    /\ Result.actions_applied[1].resulting_price = Num(1339)
    /\ Returned_payload["price_after_discount"] = Num(1339)

\* C15: when a rule matched whose action is apply_discount of the fixed
\* amount v, on a payload whose price is the number p, price_after_discount
\* and the record's resulting_price are max(0, p - v): never negative, and 0
\* when v >= p.
C15_FixedFloor ==
    (Returned /\ Result.matched) =>
        \A k \in 1..Len(Actions(rule)) :
           LET a == Actions(rule)[k]
               rec == Result.actions_applied[k]
               p == CallerPrice
               v == a.params.value
           IN  (/\ Discounts(a) /\ a.params.type = S("fixed")
                /\ p.t = "num" /\ v.t = "num")
               => /\ rec.error = Absent
                  /\ rec.resulting_price = Num(IF p.n - v.n > 0 THEN p.n - v.n ELSE 0)
                  /\ rec.resulting_price.n >= 0
                  /\ v.n >= p.n => rec.resulting_price = N(0)
                  /\ Returned_payload["price_after_discount"] = rec.resulting_price

\* 500 off a price of 200: 0
C15_Witness ==
    /\ Returned /\ Result.matched
    /\ rule = TestRule(N(500), S("fixed"))
    /\ CallerPrice = N(200)
    /\ Result.actions_applied[1].resulting_price = N(0)
    /\ Returned_payload["price_after_discount"] = N(0)

\* apply_action called on its own has ended: it returned its record, or raised
Acted == probe.pc = "acted"
ActEnded == probe.pc \in {"acted", "raised"}
\* the content of the payload now, and what it held at a path before the call
Now == Flatten(payload, heap, <<>>)
BeforeAt(path) ==
    IF \E e \in before.payload : e[1] = path
    THEN (CHOOSE e \in before.payload : e[1] = path)[2]
    ELSE Absent
IsPrefix(a, b) == Len(a) <= Len(b) /\ SubSeq(b, 1, Len(a)) = a
Unrelated(a, b) == ~IsPrefix(a, b) /\ ~IsPrefix(b, a)

\* C16: apply_action on an action whose params are a mapping or are left out:
\* apply_discount on a payload without a price returns a record with error
\* no_price_field, set_field without a field returns one with error no_field,
\* and a record that carries an error stands for no write: the payload has
\* the content it had, so no price_after_discount and no field was written.
C16_DataErrorInRecord ==
    (ActEnded /\ probe.act.isMap /\ probe.act.params.kind # "none") =>
        LET a == probe.act
            rec == probe.rec
        IN  /\ (a.action = S("apply_discount") /\ Get(BeforeAt(<<"price">>)) = Null) =>
                  /\ Acted
                  /\ rec.error = S("no_price_field")
                  /\ rec.resulting_price = Absent
                  /\ BeforeAt(<<"price_after_discount">>) = Absent =>
                        heap[payload.n]["price_after_discount"] = Absent
                  /\ Now = before.payload
            /\ (a.action = S("set_field") /\ a.params.field = Absent) =>
                  /\ Acted
                  /\ rec.error = S("no_field")
                  /\ rec.set_field = Absent /\ rec.set_value = Absent
                  /\ Now = before.payload
            /\ (Acted /\ rec.error # Absent) =>
                  /\ Now = before.payload
                  /\ rec.warning = Absent
                  /\ rec.resulting_price = Absent /\ rec.set_field = Absent

\* a discount of 10 percent on a payload that holds a tier and no price
C16_Witness ==
    /\ Acted
    /\ probe.act = Action(S("apply_discount"), Params(N(10), S("percent"), Absent))
    /\ BeforeAt(<<"price">>) = Absent /\ BeforeAt(<<"tier">>) = S("gold")
    /\ probe.rec.error = S("no_price_field")
    /\ heap[payload.n]["price_after_discount"] = Absent

\* an action that is a mapping whose name is none of the three known ones
UnknownName(a) ==
    a.isMap /\ Get(a.action) \notin {S("apply_discount"), S("mark_out_of_policy"), S("set_field")}

\* C17: a call on a rule whose conditions all hold and whose actions all have
\* a name that is none of apply_discount, mark_out_of_policy, set_field ends
\* by returning matched true, with a record of warning unknown_action for
\* each action and the payload as it was.
C17_UnknownActionSafe ==
    (/\ NonEmptyRule /\ Ended /\ AllTrue
     /\ \A k \in 1..Len(Actions(rule)) : UnknownName(Actions(rule)[k]))
    => /\ Returned
       /\ Result.matched
       /\ Len(Result.actions_applied) = Len(Actions(rule))
       /\ \A k \in 1..Len(Actions(rule)) :
             Result.actions_applied[k].warning = S("unknown_action")
       /\ ResultPayload = (IF payload.t = "map" THEN before.payload ELSE EmptyContent)

FlagPaths == {<<"policy_flags">>, <<"policy_flags", "out_of_policy_rule">>}

\* C18: apply_action of mark_out_of_policy, on any payload, returns with
\* policy_flags.out_of_policy_rule true in the payload, and every entry of
\* the payload other than policy_flags and that flag is what it was.
C18_MarkSetsFlag ==
    (ActEnded /\ probe.act.isMap /\ probe.act.action = S("mark_out_of_policy")) =>
        /\ Acted
        /\ Walk(payload, <<"policy_flags", "out_of_policy_rule">>, 1, heap) = Bool(TRUE)
        /\ \A e \in before.payload : e[1] \notin FlagPaths => e \in Now
        /\ \A e \in Now : e[1] \notin FlagPaths => e \in before.payload

\* C19: apply_action of set_field with a field f that is a non-empty string
\* and a value v returns, and then the resolver gives v (None for a value
\* left out) at f in the payload, also when mappings on the way were missing
\* or were no mappings; every entry of the payload at a path that is neither
\* a part of f nor below f is what it was, and no other entry was added.
C19_SetFieldRoundTrip ==
    LET a == probe.act
        f == a.params.field
    IN  (/\ ActEnded /\ a.isMap /\ a.action = S("set_field") /\ a.params.kind = "map"
         /\ f.t = "str" /\ f # S(""))
        => /\ Acted
           /\ _get_attr_val(payload, f, heap) = Ret(Get(a.params.value))
           /\ probe.rec.set_field = f /\ probe.rec.set_value = Get(a.params.value)
           /\ \A e \in before.payload : Unrelated(e[1], f.s) => e \in Now
           /\ \A e \in Now : Unrelated(e[1], f.s) => e \in before.payload

\* policy_flags.price.tier written into a payload whose policy_flags is None
\* and which holds other entries: two mappings were made on the way
C19_Witness ==
    /\ Acted
    /\ probe.act = Action(S("set_field"),
                          Params(S("gold"), Absent, Str(<<"policy_flags", "price", "tier">>)))
    /\ BeforeAt(<<"policy_flags">>) = Null /\ BeforeAt(<<"tier">>) = S("gold")
    /\ Walk(payload, <<"policy_flags", "price", "tier">>, 1, heap) = S("gold")
    /\ heap[payload.n]["tier"] = S("gold")

\* what a caller sees of a call that ended at the frame and heap of c: that
\* it raised, or the content of the result it returned
Outcome(c) ==
    IF c.f.pc = "raised" THEN [out |-> "raise"]
    ELSE LET res == c.f.res
         IN  [out |-> "return", matched |-> res.matched, reason |-> res.reason,
              failed_condition |-> res.failed_condition,
              explanation |-> res.explanation,
              in_policy |-> res.in_policy, policy_status |-> res.policy_status,
              resulting_payload |-> Flatten(res.resulting_payload, c.h, <<>>),
              actions_applied |->
                 [k \in 1..Len(res.actions_applied) |->
                    LET a == res.actions_applied[k]
                    IN  [action |-> a.action, error |-> a.error, warning |-> a.warning,
                         resulting_price |-> a.resulting_price, set_field |-> a.set_field,
                         set_value |-> Flatten(a.set_value, c.h, <<>>),
                         kind |-> a.params.kind, type |-> a.params.type,
                         field |-> a.params.field,
                         value |-> Flatten(a.params.value, c.h, <<>>)]]]
\* the content of a rule
RuleShape(r, h) ==
    <<[r EXCEPT !.actions = [k \in 1..Len(r.actions) |->
                                [r.actions[k] EXCEPT !.params.value = Absent]]],
      [k \in 1..Len(r.actions) |-> Flatten(r.actions[k].params.value, h, <<>>)]>>
EqualInputs ==
    /\ RuleShape(rule, in2.heap0) = RuleShape(in2.rule, in2.heap0)
    /\ Flatten(payload, in2.heap0, <<>>) = Flatten(in2.payload, in2.heap0, <<>>)
Ended2 == er2.pc \in {"done", "raised"}

\* C20: of two calls of execute_rule interleaved step by step (a step is the
\* entry, one condition evaluated, one action applied, the result made up),
\* on the same rule and payload objects or on different ones, each ends as it
\* ends when run alone on its rule and payload, with a result of the same
\* content, which stays what it is while the other call goes on; two calls on
\* a rule and a payload of equal content end alike.
C20_NoSharedState ==
    /\ Ended => Outcome([f |-> er, h |-> heap]) = Outcome(execute_rule(rule, payload, in2.heap0))
    /\ Ended2 => Outcome([f |-> er2, h |-> heap])
                    = Outcome(execute_rule(in2.rule, in2.payload, in2.heap0))
    /\ (Ended /\ Ended2 /\ EqualInputs)
          => Outcome([f |-> er, h |-> heap]) = Outcome([f |-> er2, h |-> heap])

\* two calls on one payload object: the second call entered first and has
\* applied one of its two actions, while the first call has returned with
\* what its actions wrote
C20_Witness ==
    /\ payload.t = "map" /\ in2.payload = payload
    /\ er2.payload_copy.t = "map" /\ er.payload_copy.t = "map"
    /\ er2.payload_copy.n < er.payload_copy.n
    /\ er2.pc = "apply" /\ Len(er2.applied_list) = 1
    /\ Returned /\ Result.matched /\ Len(Result.actions_applied) = 2
    /\ ResultPayload # before.payload

\* eval_condition called on its own has ended, on a condition that is a
\* mapping, whose attribute is a string or is missing, and a payload mapping
Probed ==
    /\ probe.pc = "done" /\ probe.cond.isMap /\ payload.t = "map"
    /\ probe.cond.attribute.t \in {"str", "null", "absent"}
Attr == Get(probe.cond.attribute)
Op == Get(probe.cond.operator)
Val == Get(probe.cond.value)

\* C21: on a payload mapping the resolver does not raise; for a path that is
\* a non-empty string it returns what the payload holds at the end of the
\* path's segments (a value, or a nested mapping), and None when a segment is
\* not held or the path goes through a value that is no mapping; a path of
\* one segment is the lookup of that key; a missing or empty path gives None.
C21_Resolver ==
    Probed =>
        LET r == probe.left
            at == BeforeAt(Attr.s)
        IN  /\ ~r.raised
            /\ (Attr.t # "str" \/ Attr = S("")) => r.v = Null
            /\ (Attr.t = "str" /\ Attr # S("")) =>
                  /\ at = Absent => r.v = Null
                  /\ at = Map(0) =>
                        (r.v.t = "map" /\ Flatten(r.v, heap, Attr.s) \subseteq before.payload)
                  /\ at \notin {Absent, Map(0)} => r.v = at
                  /\ Len(Attr.s) = 1 => r.v = Get(heap[payload.n][Attr.s[1]])

\* policy_flags.tier resolved through the nested mapping to "silver"
C21_Witness ==
    /\ Probed
    /\ Attr = Str(<<"policy_flags", "tier">>)
    /\ heap[payload.n]["policy_flags"].t = "map"
    /\ probe.left = Ret(S("silver"))

\* the six comparison operators, and the comparison of two numbers they name
CompareOps == OrderOps \cup {S("=="), S("!=")}
NumCompare(op, x, y) ==
    CASE op = S("==") -> x = y
      [] op = S("!=") -> x # y
      [] op = S("<") -> x < y
      [] op = S("<=") -> x <= y
      [] op = S(">") -> x > y
      [] op = S(">=") -> x >= y
\* a number, a string that reads as a number, a string that does not
PlainNum(v) == v.t = "num"
NumStr(v) == v = S("30")
NonNumStr(v) == v.t = "str" /\ ~NumStr(v)
AsNum(v) == IF NumStr(v) THEN 3000 ELSE v.n

\* C22: when the resolved value or the condition's value is a number, a
\* comparison operator compares the two as numbers if the other side is a
\* number or a numeric string, and if the other side is a string that is not
\* numeric the ordering operators and == give false and != gives true; the
\* call does not raise.
C22_NumericCoercion ==
    (Probed /\ ~probe.left.raised /\ Op \in CompareOps) =>
        LET l == probe.left.v
            v == Val
        IN  (PlainNum(l) \/ PlainNum(v)) =>
              /\ probe.result # "raise"
              /\ ((PlainNum(l) \/ NumStr(l)) /\ (PlainNum(v) \/ NumStr(v))) =>
                    probe.result = B(NumCompare(Op, AsNum(l), AsNum(v)))
              /\ (NonNumStr(l) \/ NonNumStr(v)) => probe.result = B(Op = S("!="))

\* the payload's price "30" against the value 30 satisfies >=
C22_Witness ==
    /\ Probed /\ probe.left = Ret(S("30")) /\ Val = N(30) /\ Op = S(">=")
    /\ probe.result = "true"

\* what the condition of the probe gives under another operator
WithOp(op) == eval_condition([probe.cond EXCEPT !.operator = op], payload, heap)
\* the membership test 'left in val' of Python fails: val is no collection,
\* or is a string and left is not, or is a mapping and left is unhashable
TestFails(left, val) ==
    \/ val.t \notin {"list", "str", "map"}
    \/ val.t = "str" /\ left.t # "str"
    \/ val.t = "map" /\ left.t \in {"map", "list"}

\* C23: where the membership test does not fail, exactly one of in and
\* not_in is true; where it fails, both are false.
C23_InNotIn ==
    (Probed /\ ~probe.left.raised /\ Op = S("in")) =>
        LET other == WithOp(S("not_in")) IN
        /\ probe.result \in {"true", "false"} /\ other \in {"true", "false"}
        /\ IF TestFails(probe.left.v, Val)
           THEN probe.result = "false" /\ other = "false"
           ELSE probe.result # other

\* "gold" in ["gold", "silver"] is true and not_in false; 200 in 30 fails
C23_Witness ==
    /\ Probed /\ Op = S("in") /\ Val = Lst(1) /\ probe.left = Ret(S("gold"))
    /\ probe.result = "true" /\ WithOp(S("not_in")) = "false"
C23_WitnessFails ==
    /\ Probed /\ Op = S("in") /\ Val = N(30) /\ probe.left = Ret(N(200))
    /\ probe.result = "false" /\ WithOp(S("not_in")) = "false"

SupportedOps == CompareOps \cup {S("in"), S("not_in"), S("is_null"), S("is_not_null")}
\* a condition that holds on every payload, and the rules that hold the
\* probed condition alone or after it, with an action to apply on a match
AlwaysTrue == Cond(Absent, S("is_null"), Absent)
RuleWith(conds) ==
    Rule(TRUE, conds, TRUE, <<Action(S("mark_out_of_policy"), NoParams)>>, FALSE)
NotMet(r) ==
    LET e == execute_rule(r, payload, heap).f
    IN  /\ e.pc = "done" /\ e.res.matched = FALSE /\ e.res.reason = "conditions_not_met"
        /\ e.res.failed_condition = probe.cond /\ e.res.actions_applied = <<>>

\* C24: a condition whose operator is none of the ten supported ones, or is
\* missing, evaluates false whatever the resolved value and the condition's
\* value are, and a rule holding it, alone or after a condition that holds,
\* returns conditions_not_met with that condition and applies no action.
C24_UnknownOperator ==
    (Probed /\ Op \notin SupportedOps) =>
        /\ probe.result = "false"
        /\ NotMet(RuleWith(<<probe.cond>>))
        /\ NotMet(RuleWith(<<AlwaysTrue, probe.cond>>))

\* 200 ~= 200: an unknown operator on operands that == finds equal
C24_Witness ==
    /\ Probed /\ Op = S("~=") /\ probe.left = Ret(N(200)) /\ Val = N(200)
    /\ WithOp(S("==")) = "true" /\ probe.result = "false"
C24_WitnessMissing ==
    /\ Probed /\ Op = Null /\ probe.left = Ret(S("gold")) /\ Val = S("gold")
    /\ probe.result = "false"

\* the values the rule builders write where a payload attribute is meant
AttributeNames == {S("price"), S("our_price")}

FlagPath == Str(<<"policy_flags", "out_of_policy_rule">>)

\* C25: whenever execute_rule returns policy_status "out_of_policy", the
\* resulting payload holds true at policy_flags.out_of_policy_rule, whatever
\* the actions of the rule are and whatever their order is.
C25_VerdictAgreesWithFlag ==
    (Returned /\ Result.policy_status = S("out_of_policy")) =>
        _get_attr_val(Result.resulting_payload, FlagPath, heap) = Ret(Bool(TRUE))

\* C26: apply_discount of type percent or fixed, with a value that is a
\* number not below 0, on a payload whose price is a number not below 0,
\* writes a price_after_discount p with 0 <= p <= price.
C26_DiscountWithinPrice ==
    LET a == probe.act
        p == BeforeAt(<<"price">>)
        v == a.params.value
    IN  ( /\ Acted /\ a.isMap /\ a.action = S("apply_discount") /\ a.params.kind = "map"
          /\ a.params.type \in {S("percent"), S("fixed")}
          /\ p.t = "num" /\ p.n >= 0 /\ v.t = "num" /\ v.n >= 0 ) =>
            LET pad == heap[payload.n]["price_after_discount"]
            IN  /\ pad.t = "num"
                /\ pad = probe.rec.resulting_price
                /\ 0 <= pad.n /\ pad.n <= p.n

\* action k of the rule applied on its own to the caller's payload, whether
\* it writes a price, and the last action of the rule that writes one
Alone(k) == apply_action(Actions(rule)[k], payload.n, heap)
Produces(k) == Alone(k).rec.resulting_price # Absent
Producing == {k \in 1..Len(Actions(rule)) : Produces(k)}
LastProducing == CHOOSE k \in Producing : \A j \in Producing : j <= k
PayloadAfter(k) == Flatten(payload, Alone(k).h, <<>>)

C27_WitnessTwice ==
    /\ Returned /\ Result.matched /\ CallerPrice = N(200)
    /\ Len(Actions(rule)) = 2 /\ Actions(rule)[1] = Actions(rule)[2]
    /\ Returned_payload["price_after_discount"] = N(180)

\* C28 as stated: no rule that is a mapping returns invalid_rule, and a
\* mapping without conditions, the empty mapping included, returns matched
\* true with reason actions_executed.
C28_MappingsNeverInvalid ==
    (rule.isMap /\ Returned) =>
        /\ Result.reason # "invalid_rule"
        /\ Conditions(rule) = <<>> => (Result.matched /\ Result.reason = "actions_executed")

\* C28: a call that returns gives reason invalid_rule exactly when the rule
\* is no mapping or is the empty mapping, and then matched is false and no
\* action was applied; a mapping that holds a key and has no conditions (no
\* conditions entry, or an empty list) goes on to the actions, and a result
\* it returns has matched true and reason actions_executed.
C28_InvalidRuleOnly ==
    Returned =>
        /\ Result.reason = "invalid_rule" <=> (~rule.isMap \/ EmptyRule(rule))
        /\ Result.reason = "invalid_rule" =>
              (~Result.matched /\ Result.actions_applied = <<>> /\ er.i = 0)
        /\ (NonEmptyRule /\ Conditions(rule) = <<>>) =>
              /\ Result.matched /\ Result.reason = "actions_executed"
              /\ Len(Result.actions_applied) = Len(Actions(rule))

\* a mapping with actions and no conditions entry matched
C28_Witness ==
    /\ Returned /\ rule.isMap /\ ~rule.has_conditions /\ rule.has_actions
    /\ Len(rule.actions) = 2
    /\ Result.matched /\ Result.reason = "actions_executed"
\* the empty mapping, and a mapping that holds neither conditions nor actions
C28_WitnessEmpty ==
    Returned /\ rule.isMap /\ EmptyRule(rule) /\ Result.reason = "invalid_rule"
C28_WitnessOtherKey ==
    /\ Returned /\ rule.isMap /\ ~rule.has_conditions /\ ~rule.has_actions /\ rule.other
    /\ Result.matched /\ Result.reason = "actions_executed"

\* the payload the first call returned, and the one the second call returned
FirstPayload == Flatten(er.res.resulting_payload, heap, <<>>)
SecondPayload == Flatten(er2.res.resulting_payload, heap, <<>>)

\* C30: when execute_rule has returned on a rule whose actions are only
\* apply_discount and mark_out_of_policy, the call of the same rule on the
\* resulting_payload returns too, and its resulting_payload has the content
\* of the first, whether its conditions hold the second time or not; the
\* first result keeps its content meanwhile.
C30_ReexecutionFixedPoint ==
    /\ (Returned /\ er2.pc # "idle") => er2.pc # "raised"
    /\ (Returned /\ er2.pc = "done") => SecondPayload = FirstPayload

\* the rule matched and discounted, and does not match its own result
C30_Witness ==
    /\ Returned /\ er2.pc = "done"
    /\ Result.matched /\ ~er2.res.matched
    /\ Len(Result.actions_applied) = 2
    /\ Result.actions_applied[1].resulting_price = N(180)
    /\ Marks(Result.actions_applied)
    /\ SecondPayload = FirstPayload
\* the rule matched both times and wrote the same again
C30_WitnessTwice ==
    /\ Returned /\ er2.pc = "done"
    /\ Result.matched /\ er2.res.matched
    /\ er2.res.actions_applied # <<>>
    /\ er2.res.actions_applied = Result.actions_applied
    /\ FirstPayload # before.payload
====
